---- MODULE Spec2Model ----
(***************************************************************************)
(* A model of the translation memory database of translate/storage/tmdb.py *)
(* (class TMDB and the two length-bound functions) on top of a model of    *)
(* the SQLite behaviour the class relies on: two tables with their unique  *)
(* indices, one connection per thread, implicit transactions with a single *)
(* writer, commit and rollback.                                            *)
(*                                                                         *)
(* Texts are sequences of characters; every other Python string is a TLA+  *)
(* string.  Python's None is the string "None" (NoneText among texts).     *)
(***************************************************************************)
EXTENDS Integers, Sequences, FiniteSets, TLC

VARIABLES
    committed,  \* the database file: what every connection sees outside a write transaction
    tm_db,      \* TMDB._tm_dbs[db_file]: thread -> its connection (created lazily)
    tm_dbs,     \* TMDB._tm_dbs: the dict registered for db_file (0: none) and the dicts made so far
    fts3,       \* the SQLite of the process has the fts3 module
    ctor,       \* per thread: where its call of TMDB(db_file) stands, and how the last one ended
    objs,       \* the TMDB instances constructed so far
    inst,       \* the fields of the TMDB instance (max_candidates, min_similarity, max_length, fulltext)
    now,        \* int(time.time())
    last,       \* the last call: operation, thread, arguments, outcome
    leftover,   \* history: per thread, the ids of the rows a failed batch left in the open transaction
    lenIn,      \* the arguments of the last evaluation of the two length functions
    batches     \* per thread: the add_list / add_store call it is in, when the call is taken step by step

vars == <<committed, tm_db, tm_dbs, fts3, ctor, objs, inst, now, last, leftover, lenIn, batches>>

-----------------------------------------------------------------------------
(* Bounds of the model *)

\* rows per table in Spec
MaxRows == 2
\* rows per table in SpecQuery
MaxStored == 3
\* largest value of the clock
MaxTime == 1
\* units in one add_list / add_store call
MaxBatch == 2
\* a max_candidates below the default
MaxCand == 2
\* largest length given to the length functions
MaxLength == 6
\* largest small max_length given to max_levenshtein_length
MaxCap == 4

(* Program constants *)

DefaultMaxCandidates == 3
DefaultMinSimilarity == 75
DefaultMaxLength == 1000

-----------------------------------------------------------------------------
(* Values *)

None == "None"
NoneText == <<"None">>
Threads == {"t1", "t2"}
MainThread == "t1"

Range(s) == {s[i] : i \in 1..Len(s)}
Max(a, b) == IF a >= b THEN a ELSE b
Min(a, b) == IF a <= b THEN a ELSE b
SeqsUpTo(S, n) == UNION {[1..k -> S] : k \in 0..n}

EmptyDB == [sources |-> <<>>, targets |-> <<>>, fulltext |-> {}, triggers |-> FALSE]

-----------------------------------------------------------------------------
(* data.normalize_code: lower case, "_" and "@" become "-"; an empty or     *)
(* missing code is returned as it is.                                       *)

normalize_code(code) ==
    CASE code = "EN" -> "en"
      [] code = "pt_BR" -> "pt-br"
      [] OTHER -> code

-----------------------------------------------------------------------------
(* Connections *)

NewConn == [txn |-> "none", db |-> EmptyDB]

\* a variant that connects anew at every use
ConnectAnew(w, t) == [w EXCEPT !.tm_db = (t :> NewConn) @@ w.tm_db]

\* TMDB._get_connection: the calling thread's connection is created on first use
get_connection(w, t) ==
    IF t \in DOMAIN w.tm_db THEN w
    ELSE [w EXCEPT !.tm_db = (t :> NewConn) @@ w.tm_db]

\* what a statement of thread t reads: its own uncommitted changes, else the file
View(w, t) ==
    IF t \in DOMAIN w.tm_db /\ w.tm_db[t].txn = "write" THEN w.tm_db[t].db ELSE w.committed

\* another connection holds the write lock of the file
Locked(w, t) == \E u \in DOMAIN w.tm_db : u # t /\ w.tm_db[u].txn = "write"

\* sqlite3 opens a transaction before an INSERT; the write lock is taken by the statement
BeginWrite(w, t) ==
    IF w.tm_db[t].txn = "write" THEN w
    ELSE [w EXCEPT !.tm_db[t] = [txn |-> "write", db |-> w.committed]]

BeginDeferred(w, t) ==
    IF w.tm_db[t].txn = "none" THEN [w EXCEPT !.tm_db[t].txn = "deferred"] ELSE w

\* connection.commit(); commits counts the commits of the call under way
Commit(w, t) ==
    [w EXCEPT !.committed = IF w.tm_db[t].txn = "write" THEN w.tm_db[t].db ELSE @,
              !.tm_db[t] = NewConn,
              !.commits = @ + 1]

\* connection.rollback()
Rollback(w, t) == [w EXCEPT !.tm_db[t] = NewConn]

-----------------------------------------------------------------------------
(* The two INSERT statements of add_dict against the schema of init_database *)

\* sources_uniq_idx ON sources (text, context, lang): NULLs are distinct in a unique index
SourceConflict(db, text, context, lang) ==
    \E i \in 1..Len(db.sources) :
        /\ db.sources[i].text = text
        /\ db.sources[i].context = context
        /\ db.sources[i].lang = lang
        /\ context # None

\* NOT NULL columns of sources that add_dict can leave NULL (text fails before, in len())
SourceNull(text, lang) == lang = None

\* sources_insert_trig: keeps the fulltext table in step with sources
InsertTrigger(db, sid, text) ==
    IF db.triggers THEN db.fulltext \cup {[docid |-> sid, text |-> text]} ELSE db.fulltext

\* INSERT INTO sources (text, context, lang, length) VALUES (?, ?, ?, ?)
InsertSource(w, t, text, context, lang, length) ==
    IF Locked(w, t)
    THEN [w |-> BeginDeferred(w, t), exc |-> "OperationalError", sid |-> 0]
    ELSE LET w1 == BeginWrite(w, t)
             db == w1.tm_db[t].db
             sid == Len(db.sources) + 1
             row == [sid |-> sid, text |-> text, context |-> context,
                     lang |-> lang, length |-> length]
         IN  IF SourceNull(text, lang) \/ SourceConflict(db, text, context, lang)
             THEN [w |-> w1, exc |-> "IntegrityError", sid |-> 0]
             ELSE [w |-> [w1 EXCEPT !.tm_db[t].db =
                              [db EXCEPT !.sources = Append(@, row),
                                         !.fulltext = InsertTrigger(db, sid, text)]],
                   exc |-> "ok", sid |-> sid]

\* a variant that gives the id the row would have got
SelectSidNext(db, text, context, lang) == Len(db.sources) + 1

\* SELECT sid FROM sources WHERE text=? AND context=? and lang=?, then fetchone():
\* 0 stands for the None of an empty result; a NULL parameter equals nothing
SelectSid(db, text, context, lang) ==
    LET hits == {i \in 1..Len(db.sources) :
                    /\ db.sources[i].text = text
                    /\ context # None /\ db.sources[i].context = context
                    /\ lang # None /\ db.sources[i].lang = lang}
    IN  IF hits = {} THEN 0
        ELSE db.sources[CHOOSE i \in hits : \A j \in hits : i <= j].sid

\* targets_uniq_idx ON targets (sid, text, lang)
TargetConflict(db, sid, text, lang) ==
    \E i \in 1..Len(db.targets) :
        /\ db.targets[i].sid = sid
        /\ db.targets[i].text = text
        /\ db.targets[i].lang = lang

\* NOT NULL columns of targets
TargetNull(text, lang) == text = None \/ lang = None

\* INSERT INTO targets (sid, text, lang, time) VALUES (?, ?, ?, ?)
InsertTarget(w, t, sid, text, lang, time) ==
    IF Locked(w, t)
    THEN [w |-> BeginDeferred(w, t), exc |-> "OperationalError"]
    ELSE LET w1 == BeginWrite(w, t)
             db == w1.tm_db[t].db
             row == [tid |-> Len(db.targets) + 1, sid |-> sid, text |-> text,
                     lang |-> lang, time |-> time]
         IN  IF TargetNull(text, lang) \/ TargetConflict(db, sid, text, lang)
             THEN [w |-> w1, exc |-> "IntegrityError"]
             ELSE [w |-> [w1 EXCEPT !.tm_db[t].db.targets = Append(@, row)],
                   exc |-> "ok"]

-----------------------------------------------------------------------------
(* TMDB.add_dict *)

\* a variant that stores the size of the text in UTF-16
LengthEncoded(text) == 2 * Len(text)

\* line 221: len(unit["source"]), the value of the length column
SourceLength(text) == Len(text)

\* the statements inside the outer try of add_dict: the world they leave and
\* the exception that leaves the try ("ok" when none does)
AddDictBody(w, t, unit, source_lang, target_lang, time) ==
    IF unit.source = NoneText
    THEN [w |-> w, exc |-> "TypeError"]                      \* len(None)
    ELSE
    LET ins == InsertSource(w, t, unit.source, unit.context, source_lang,
                            SourceLength(unit.source))
    IN  IF ins.exc = "OperationalError"
        THEN [w |-> ins.w, exc |-> "OperationalError"]
        ELSE
        LET sid == IF ins.exc = "ok" THEN ins.sid
                   ELSE SelectSid(View(ins.w, t), unit.source, unit.context, source_lang)
        IN  IF sid = 0
            THEN [w |-> ins.w, exc |-> "TypeError"]          \* (sid,) = None
            ELSE
            LET tgt == InsertTarget(ins.w, t, sid, unit.target, target_lang, time)
            IN  IF tgt.exc = "OperationalError"
                THEN [w |-> tgt.w, exc |-> "OperationalError"]
                ELSE [w |-> tgt.w, exc |-> "ok"]             \* IntegrityError is suppressed

\* a variant that leaves the commit to the caller
AddDictEndNoCommit(r, t, commit) == r

\* the commit / rollback at the end of add_dict
AddDictEnd(r, t, commit) ==
    IF ~commit THEN r
    ELSE IF r.exc = "ok" THEN [r EXCEPT !.w = Commit(r.w, t)]
    ELSE [r EXCEPT !.w = Rollback(r.w, t)]

add_dict(w, t, unit, source_lang, target_lang, commit, time) ==
    AddDictEnd(AddDictBody(get_connection(w, t), t, unit,
                           normalize_code(source_lang), normalize_code(target_lang), time),
               t, commit)

-----------------------------------------------------------------------------
(* TMDB.add_unit *)

Falsy(x) == x = None \/ x = ""

\* a variant that prefers the argument to the unit's own language
ResolveLangArgFirst(own, arg) == IF ~Falsy(arg) THEN arg ELSE own

\* lines 196-199: the language add_unit uses for one side: the unit's own, else the argument
ResolveLang(own, arg) == IF ~Falsy(own) THEN own ELSE arg

\* a variant that forgets the check of the target language
UndefinedSourceOnly(source_lang, target_lang) == Falsy(source_lang)

\* lines 201-204: a side without a language raises LanguageError
Undefined(source_lang, target_lang) == Falsy(source_lang) \/ Falsy(target_lang)

add_unit(w, t, unit, source_lang, target_lang, commit, time) ==
    LET sl == ResolveLang(unit.sourcelanguage, source_lang)
        tl == ResolveLang(unit.targetlanguage, target_lang)
    IN  IF Undefined(sl, tl)
        THEN [w |-> w, exc |-> "LanguageError"]
        ELSE add_dict(w, t, [source |-> unit.source, target |-> unit.target,
                             context |-> unit.context], sl, tl, commit, time)

-----------------------------------------------------------------------------
(* TMDB.add_list and TMDB.add_store *)

\* the loop of add_list from unit i on; count is the number of units added so far
RECURSIVE AddListLoop(_, _, _, _, _, _, _, _)
AddListLoop(w, t, units, i, count, source_lang, target_lang, time) ==
    IF i > Len(units) THEN [w |-> w, exc |-> "ok", count |-> count]
    ELSE LET r == add_dict(w, t, units[i], source_lang, target_lang, FALSE, time)
         IN  IF r.exc # "ok" THEN [w |-> r.w, exc |-> r.exc, count |-> count]
             ELSE AddListLoop(r.w, t, units, i + 1, count + 1, source_lang, target_lang, time)

\* the final commit of a batch
BatchEnd(r, t, commit) ==
    IF r.exc = "ok" /\ commit THEN [r EXCEPT !.w = Commit(get_connection(r.w, t), t)] ELSE r

\* a variant that counts the rows it made
AddListNewRows(w, t, units, source_lang, target_lang, commit, time) ==
    LET r == BatchEnd(AddListLoop(w, t, units, 1, 0, source_lang, target_lang, time), t, commit)
    IN  [r EXCEPT !.count = Len(View(r.w, t).sources) - Len(View(w, t).sources)]

add_list(w, t, units, source_lang, target_lang, commit, time) ==
    BatchEnd(AddListLoop(w, t, units, 1, 0, source_lang, target_lang, time), t, commit)

RECURSIVE AddStoreLoop(_, _, _, _, _, _, _, _)
AddStoreLoop(w, t, units, i, count, source_lang, target_lang, time) ==
    IF i > Len(units) THEN [w |-> w, exc |-> "ok", count |-> count]
    ELSE IF ~(units[i].translatable /\ units[i].translated)
    THEN AddStoreLoop(w, t, units, i + 1, count, source_lang, target_lang, time)
    ELSE LET r == add_unit(w, t, units[i], source_lang, target_lang, FALSE, time)
         IN  IF r.exc # "ok" THEN [w |-> r.w, exc |-> r.exc, count |-> count]
             ELSE AddStoreLoop(r.w, t, units, i + 1, count + 1, source_lang, target_lang, time)

add_store(w, t, units, source_lang, target_lang, commit, time) ==
    BatchEnd(AddStoreLoop(w, t, units, 1, 0, source_lang, target_lang, time), t, commit)

-----------------------------------------------------------------------------
(* min_levenshtein_length and max_levenshtein_length.  Both compute in     *)
(* IEEE-754 doubles: min_similarity / 100.0 is rounded to 53 bits, and so  *)
(* is its product or quotient with the length.  The rounding changes the   *)
(* result of ceil or floor only where the exact value is an integer k, and *)
(* then by the sign and size of the error of the first rounding.           *)

RECURSIVE Pow2(_)
Pow2(n) == IF n = 0 THEN 1 ELSE 2 * Pow2(n - 1)

RECURSIVE Pow2Mod100(_)
Pow2Mod100(n) == IF n = 0 THEN 1 ELSE (2 * Pow2Mod100(n - 1)) % 100

\* s / 100.0 lies in [2^-BinExp(s), 2^(1 - BinExp(s))), for s in 1..100
BinExp(s) == CHOOSE k \in 0..7 : s * Pow2(k) >= 100 /\ (k = 0 \/ s * Pow2(k - 1) < 100)

\* floor(log2(k)), for k >= 1
Log2(k) == CHOOSE e \in 0..30 : Pow2(e) <= k /\ k < Pow2(e + 1)

\* 100 * (s / 100.0 as a double) - s, in units of the last mantissa bit of s / 100.0
RatioErr(s) ==
    LET rem == (s * Pow2Mod100(52 + BinExp(s))) % 100
    IN  IF rem <= 50 THEN 0 - rem ELSE 100 - rem

\* math.ceil(length * (min_similarity / 100.0))
CeilProduct(length, s) ==
    LET n == length * s
        k == n \div 100
    IN  IF n % 100 # 0 THEN k + 1
        ELSE IF k > 0 /\ RatioErr(s) > 0
                /\ length * RatioErr(s) > 100 * Pow2(BinExp(s) + Log2(k) - 1)
        THEN k + 1      \* the product rounds to the double above k
        ELSE k

\* math.floor(length / (min_similarity / 100.0)), for min_similarity # 0
FloorQuotient(length, s) ==
    LET n == 100 * length
        k == n \div s
        half == IF k > 0 /\ Pow2(Log2(k)) = k THEN 2 ELSE 1
    IN  IF n % s # 0 THEN k
        ELSE IF k > 0 /\ RatioErr(s) > 0
                /\ half * k * RatioErr(s) > s * Pow2(BinExp(s) + Log2(k) - 1)
        THEN k - 1      \* the quotient rounds to the double below k
        ELSE k

min_levenshtein_length(length, min_similarity) ==
    Max(CeilProduct(length, min_similarity), 2)

\* a variant that multiplies where the code divides
MaxLenProduct(length, min_similarity, max_length) ==
    Min((length * min_similarity) \div 100, max_length)

max_levenshtein_length(length, min_similarity, max_length) ==
    Min(FloorQuotient(length, min_similarity), max_length)

-----------------------------------------------------------------------------
(* LevenshteinComparer.similarity: the edit distance of the two strings,   *)
(* normalised by the longer one, as a percentage (rounded down here).      *)

Min3(a, b, c) == Min(a, Min(b, c))

RECURSIVE LevRow(_, _, _, _, _)
LevRow(prev, ch, b, j, acc) ==
    IF j > Len(b) THEN acc
    ELSE LevRow(prev, ch, b, j + 1,
                Append(acc, Min3(prev[j + 1] + 1, acc[j] + 1,
                                 prev[j] + (IF ch = b[j] THEN 0 ELSE 1))))

\* prev is the row of the table for a[1..i-1]: one entry per prefix of b
RECURSIVE LevRows(_, _, _, _)
LevRows(a, b, i, prev) ==
    IF i > Len(a) \/ Len(prev) # Len(b) + 1 THEN prev[Len(b) + 1]
    ELSE LevRows(a, b, i + 1, LevRow(prev, a[i], b, 1, <<prev[1] + 1>>))

distance(a, b) == LevRows(a, b, 1, [j \in 1..(Len(b) + 1) |-> j - 1])

similarity(a, b) ==
    IF a = <<>> /\ b = <<>> THEN 100
    ELSE IF a = <<>> \/ b = <<>> THEN 0
    ELSE LET l == Max(Len(a), Len(b))
         IN  (100 * (l - distance(a, b))) \div l

-----------------------------------------------------------------------------
(* TMDB.translate_unit *)

WordChars == {"a", "b", "c", "d"}

\* STRIP_REGEXP.sub(" ", text).split(): the maximal runs of word characters
RECURSIVE SplitWords(_, _, _, _)
SplitWords(text, i, word, acc) ==
    IF i > Len(text) THEN (IF word = <<>> THEN acc ELSE Append(acc, word))
    ELSE IF text[i] \in WordChars THEN SplitWords(text, i + 1, Append(word, text[i]), acc)
    ELSE SplitWords(text, i + 1, <<>>, IF word = <<>> THEN acc ELSE Append(acc, word))

\* the words of the query that are longer than 2 characters
unit_words(text) == SelectSeq(SplitWords(text, 1, <<>>, <<>>), LAMBDA word : Len(word) > 2)

\* ",".join(langs)
RECURSIVE Join(_)
Join(langs) ==
    IF langs = <<>> THEN ""
    ELSE IF Len(langs) = 1 THEN langs[1]
    ELSE langs[1] \o "," \o Join(Tail(langs))

\* a variant that leaves the codes of the query as they are given
NormLangsRaw(arg) == IF arg.isList THEN Join(arg.list) ELSE arg.str

\* lines 274-283: a list is normalised element by element and joined, anything else is normalised
NormLangs(arg) ==
    IF arg.isList THEN Join([i \in 1..Len(arg.list) |-> normalize_code(arg.list[i])])
    ELSE normalize_code(arg.str)

\* lang IN (?) with one bound parameter: equality with that one value, never true of NULL
LangIn(lang, param) == param # None /\ lang # None /\ lang = param

\* fulltext MATCH 'w1 OR w2 ...' on the index entry of source sid
Match(db, sid, words) ==
    \E f \in db.fulltext :
        /\ f.docid = sid
        /\ Range(SplitWords(f.text, 1, <<>>, <<>>)) \cap Range(words) # {}

\* the WHERE clause common to the two queries, on the join of target row j with its source row i
RowSelected(db, i, j, source_langs, target_langs, minlen, maxlen) ==
    /\ db.sources[i].sid = db.targets[j].sid
    /\ LangIn(db.sources[i].lang, source_langs)
    /\ LangIn(db.targets[j].lang, target_langs)
    /\ db.sources[i].length >= minlen
    /\ db.sources[i].length <= maxlen

\* a variant whose fulltext query leaves out the length bounds
CandidatesUnbounded(db, usefulltext, words, source_langs, target_langs, minlen, maxlen) ==
    {p \in (1..Len(db.sources)) \X (1..Len(db.targets)) :
        IF usefulltext
        THEN /\ RowSelected(db, p[1], p[2], source_langs, target_langs, 0, Len(db.sources[p[1]].text))
             /\ Match(db, db.sources[p[1]].sid, words)
        ELSE RowSelected(db, p[1], p[2], source_langs, target_langs, minlen, maxlen)}

\* the rows of the query, as pairs <<i, j>> of positions in sources and targets
Candidates(db, usefulltext, words, source_langs, target_langs, minlen, maxlen) ==
    {p \in (1..Len(db.sources)) \X (1..Len(db.targets)) :
        /\ RowSelected(db, p[1], p[2], source_langs, target_langs, minlen, maxlen)
        /\ usefulltext => Match(db, db.sources[p[1]].sid, words)}

\* the cursor may deliver the rows in any order: there is no ORDER BY
Orders(S) == {o \in [1..Cardinality(S) -> S] : \A a, b \in DOMAIN o : a # b => o[a] # o[b]}

\* a variant that keeps every row
KeepAll(quality, min_similarity) == TRUE

\* line 314: only the rows that reach min_similarity are kept
Keep(quality, min_similarity) == quality >= min_similarity

\* a variant that sorts ascending and reverses: entries of equal quality swap places
RECURSIVE SortInsertReversed(_, _)
SortInsertReversed(sorted, e) ==
    IF sorted = <<>> THEN <<e>>
    ELSE IF Head(sorted).quality > e.quality
    THEN <<Head(sorted)>> \o SortInsertReversed(Tail(sorted), e)
    ELSE <<e>> \o sorted

\* results.sort(key=quality, reverse=True) is stable: an entry goes behind
\* every entry whose quality is at least its own
RECURSIVE SortInsert(_, _)
SortInsert(sorted, e) ==
    IF sorted = <<>> THEN <<e>>
    ELSE IF Head(sorted).quality >= e.quality
    THEN <<Head(sorted)>> \o SortInsert(Tail(sorted), e)
    ELSE <<e>> \o sorted

RECURSIVE SortResults(_, _, _)
SortResults(results, i, sorted) ==
    IF i > Len(results) THEN sorted
    ELSE SortResults(results, i + 1, SortInsert(sorted, results[i]))

\* a variant that cuts one entry too late
TruncateOneMore(results, max_candidates) ==
    SubSeq(results, 1, Min(max_candidates + 1, Len(results)))

\* results[:max_candidates]
Truncate(results, max_candidates) ==
    IF max_candidates >= 0 THEN SubSeq(results, 1, Min(max_candidates, Len(results)))
    ELSE SubSeq(results, 1, Max(Len(results) + max_candidates, 0))

\* lines 311-322: rows is the cursor's sequence of <<i, j>>; pos is the place of
\* the row in it
Scored(db, rows, unit_source, min_similarity) ==
    LET entry(n) == [source |-> db.sources[rows[n][1]].text,
                     target |-> db.targets[rows[n][2]].text,
                     context |-> db.sources[rows[n][1]].context,
                     quality |-> similarity(unit_source, db.sources[rows[n][1]].text),
                     pos |-> n]
    IN  SelectSeq([n \in 1..Len(rows) |-> entry(n)],
                  LAMBDA e : Keep(e.quality, min_similarity))

\* a variant that takes the fulltext query from three words on
UseFulltextFromThree(self, unit_source) == self.fulltext /\ Len(unit_words(unit_source)) >= 3

\* line 295: the fulltext query is run by an instance with fulltext, for more than 3 words
UseFulltext(self, unit_source) == self.fulltext /\ Len(unit_words(unit_source)) > 3

\* the query translate_unit runs on db, and what it makes of the rows
QueryRows(db, self, unit_source, source_langs, target_langs) ==
    LET minlen == min_levenshtein_length(Len(unit_source), self.min_similarity)
        maxlen == max_levenshtein_length(Len(unit_source), self.min_similarity, self.max_length)
    IN  Candidates(db, UseFulltext(self, unit_source), unit_words(unit_source),
                   NormLangs(source_langs), NormLangs(target_langs), minlen, maxlen)

Results(db, self, unit_source, rows) ==
    Truncate(SortResults(Scored(db, rows, unit_source, self.min_similarity), 1, <<>>),
             self.max_candidates)

-----------------------------------------------------------------------------
(* TMDB.__init__ after the registry: init_database, init_fulltext, preload_db *)

\* the entry of thread t in the connection cache number dict: tm_db holds the
\* entries of every cache of the file, those of the first one under the thread
Key(dict, t) == IF dict = 1 THEN t ELSE t \o "/" \o ToString(dict)

\* cursor.executescript: a pending transaction is committed before the script runs
executescript(w, k) == Commit(w, k)

\* a variant of the schema script that creates the tables anew
CreateTables(db) == [db EXCEPT !.sources = <<>>, !.targets = <<>>]

\* CREATE TABLE / CREATE INDEX IF NOT EXISTS: what exists is left as it is
CreateIfNotExists(db) == db

\* a variant that swallows the failure of the script
InitDatabaseSilent(w, k, fault) ==
    [w |-> Rollback(executescript(get_connection(w, k), k), k), exc |-> "ok"]

\* init_database on connection k; fault: the engine fails the script
init_database(w, k, fault) ==
    LET w1 == executescript(get_connection(w, k), k)
    IN  IF fault
        THEN [w |-> Rollback(w1, k), exc |-> "OperationalError"]      \* rollback, raise
        ELSE [w |-> Commit([w1 EXCEPT !.committed = CreateIfNotExists(@)], k), exc |-> "ok"]

\* INSERT INTO fulltext ... WHERE sid NOT IN (SELECT rowid FROM fulltext)
Backfill(db) ==
    db.fulltext \cup
        {[docid |-> db.sources[i].sid, text |-> db.sources[i].text] :
            i \in {j \in 1..Len(db.sources) :
                     \A f \in db.fulltext : f.docid # db.sources[j].sid}}

\* lines 122-165 of init_fulltext on connection k: the probe, the index table,
\* the backfill and the triggers. Every script of the block writes to the
\* file: it raises OperationalError when the module is missing or another
\* connection holds the write lock
FulltextTry(w, k, has_fts3) ==
    IF has_fts3 /\ ~Locked(w, k)
    THEN [w |-> [w EXCEPT !.committed.fulltext = Backfill(w.committed),
                          !.committed.triggers = TRUE],
          raised |-> FALSE]
    ELSE [w |-> w, raised |-> TRUE]

\* lines 167-175 of init_fulltext: the handler drops the triggers, which needs
\* the write lock if there are any
FulltextHandler(w, k) ==
    IF w.committed.triggers /\ Locked(w, k)
    THEN [w |-> w, exc |-> "OperationalError"]
    ELSE [w |-> [w EXCEPT !.committed.triggers = FALSE], exc |-> "ok"]

\* init_fulltext on connection k, with no step of another thread between the
\* try block and its handler. failed: the try block raised
init_fulltext(w, k, has_fts3) ==
    LET try == FulltextTry(w, k, has_fts3)
        handler == FulltextHandler(try.w, k)
    IN  IF ~try.raised
        THEN [w |-> try.w, fulltext |-> TRUE, exc |-> "ok", failed |-> FALSE]
        ELSE [w |-> handler.w, fulltext |-> FALSE, exc |-> handler.exc, failed |-> TRUE]

\* preload_db: SELECT COUNT(*) over the join of sources, targets and, with fulltext, the index
preload_db(db, fulltext) ==
    Cardinality({p \in (1..Len(db.sources)) \X (1..Len(db.targets)) :
                    /\ db.sources[p[1]].sid = db.targets[p[2]].sid
                    /\ fulltext => \E f \in db.fulltext : f.docid = db.sources[p[1]].sid})

\* lines 62-69 of __init__ on connection k
construct(w, k, has_fts3, fault) ==
    LET d == init_database(w, k, fault)
        f == init_fulltext(d.w, k, has_fts3)
    IN  IF d.exc # "ok"
        THEN [w |-> d.w, exc |-> d.exc, fulltext |-> FALSE, failed |-> FALSE, count |-> 0]
        ELSE IF f.exc # "ok"
        THEN [w |-> f.w, exc |-> f.exc, fulltext |-> FALSE, failed |-> TRUE, count |-> 0]
        ELSE [w |-> f.w, exc |-> "ok", fulltext |-> f.fulltext, failed |-> f.failed,
              count |-> preload_db(View(f.w, k), f.fulltext)]

-----------------------------------------------------------------------------
(* The inputs the operations are called with *)

abc == <<"a", "b", "c">>
abb == <<"a", "b", "b">>
abcc == <<"a", "b", "c", "c">>
aabc == <<"a", "a", "b", "c">>

\* texts of several words
abd == <<"a", "b", "d">>
acd == <<"a", "c", "d">>
bcd == <<"b", "c", "d">>
bcc == <<"b", "c", "c">>
ddd == <<"d", "d", "d">>
Sp == <<" ">>
Words3 == abc \o Sp \o abd \o Sp \o acd
Words4 == Words3 \o Sp \o bcd
Words4b == Words3 \o Sp \o bcc
Short4 == Words3 \o Sp \o <<"b", "c">>
Punct4 == abc \o <<",">> \o abd \o <<".">> \o acd \o <<"-">> \o bcd
Other4 == ddd \o Sp \o ddd \o Sp \o ddd \o Sp \o ddd

Dict(source, target, context) == [source |-> source, target |-> target, context |-> context]

Unit(source, target, context, sl, tl, translated) ==
    [source |-> source, target |-> target, context |-> context, sourcelanguage |-> sl,
     targetlanguage |-> tl, translatable |-> TRUE, translated |-> translated]

\* a dictionary without a source text: len(unit["source"]) raises
BadDict == Dict(NoneText, "x", "ctx")

\* dictionaries for add_dict and add_list: with and without a context
StoreDicts == {Dict(abc, "x", None), Dict(abc, "x", "ctx"), BadDict}

\* translation units for add_unit: with and without languages of their own
StoreUnits == {Unit(abc, "x", "ctx", None, None, TRUE), Unit(abc, "x", "ctx", "de", "fr", TRUE),
               Unit(abc, "x", "ctx", "de", None, TRUE), Unit(abc, "x", "ctx", "", "fr", TRUE)}

\* units of a store for add_store: a translated one with its languages, an
\* untranslated one, and one that does not know its target language
BatchUnits == {Unit(abc, "x", "ctx", "de", "fr", TRUE), Unit(abc, "x", "ctx", "de", "fr", FALSE),
               Unit(abc, "x", "ctx", "de", None, TRUE)}

Str(x) == [isList |-> FALSE, list |-> <<>>, str |-> x]
List(l) == [isList |-> TRUE, list |-> l, str |-> ""]

\* what the queries run against: texts at several distances from abc, in two source languages
QueryInserts ==
    {<<Dict(s, "x", "ctx"), "en", "fr">> : s \in {abc, abcc, aabc, abb}}
        \cup {<<Dict(abc, "x", "ctx"), "de", "fr">>}

\* the language arguments of the queries: a code, a list of codes, nothing
QuerySourceLangs == {Str("en"), Str("de"), Str(None), Str(""),
                     List(<<"en">>), List(<<"en", "de">>), List(<<>>)}
QueryTargetLangs == {Str("fr"), Str(None), List(<<"fr">>), List(<<>>)}
QueryLangs == {<<sl, Str("fr")>> : sl \in QuerySourceLangs}
                  \cup {<<Str("en"), tl>> : tl \in QueryTargetLangs}

\* the language arguments of add_unit: <<source_lang, target_lang>>
UnitLangs == {<<None, None>>, <<"en", "fr">>, <<"en", "">>}

-----------------------------------------------------------------------------
(* State *)

World == [committed |-> committed, tm_db |-> tm_db, commits |-> 0]

NoArgs == [unit_source |-> <<>>, source_langs |-> Str(None), target_langs |-> Str(None)]

\* the record of a call: its outcome; for an insert its commit argument, the
\* number n of records it was given to insert and the commits it made; for
\* add_unit the languages of the unit and of the call; for translate_unit its
\* arguments, the query it logged to run ("fulltext matching" or "nonfulltext
\* matching"), the rows of its cursor, its results and the places of the
\* results in the cursor
Call(op, t, exc, count) ==
    [op |-> op, t |-> t, exc |-> exc, count |-> count, commit |-> FALSE, n |-> 0,
     commits |-> 0, args |-> NoArgs, matching |-> "", rows |-> <<>>, results |-> <<>>,
     order |-> <<>>]

NoIds == [sources |-> {}, targets |-> {}]

\* a thread that is in no batch taken step by step; ids: the rows the batch it
\* was last in has inserted
NoBatch == [pc |-> "idle", op |-> "", units |-> <<>>, i |-> 0, count |-> 0, commit |-> FALSE,
            source_lang |-> None, target_lang |-> None, ids |-> NoIds]

\* the ids of the rows that the view of thread t has in w1 and had not in w0
NewIds(w0, w1, t) ==
    [sources |-> (Len(View(w0, t).sources) + 1)..Len(View(w1, t).sources),
     targets |-> (Len(View(w0, t).targets) + 1)..Len(View(w1, t).targets)]

RolledBack(w0, w1, t) ==
    /\ t \in DOMAIN w0.tm_db /\ w0.tm_db[t].txn = "write"
    /\ w1.tm_db[t].txn # "write" /\ w1.committed = w0.committed

\* history of the rows that batches that raised have left behind
Leftover(w0, r, t, batch) ==
    IF batch /\ r.exc # "ok"
    THEN [leftover EXCEPT ![t] = [sources |-> @.sources \cup NewIds(w0, r.w, t).sources,
                                  targets |-> @.targets \cup NewIds(w0, r.w, t).targets]]
    ELSE IF t \in DOMAIN leftover /\ RolledBack(w0, r.w, t) THEN [leftover EXCEPT ![t] = NoIds]
    ELSE leftover

\* the tables thread t sees have room for n more units below the bound max
Room(t, n, max) ==
    /\ Len(View(World, t).sources) + n <= max
    /\ Len(View(World, t).targets) + n <= max

\* a thread that is not in a constructor; how its last constructor ended: the
\* exception, whether the schema script failed (fault), whether the try block
\* of init_fulltext raised (failed), and self.fulltext
Idle == [pc |-> "idle", missing |-> FALSE, dict |-> 0, exc |-> "ok", fault |-> FALSE,
         failed |-> FALSE, fulltext |-> FALSE]

\* the state after TMDB(db_file, max_candidates, min_similarity, max_length) on
\* a new file, constructed by the main thread of a build whose SQLite has the
\* fts3 module or has not
ConstructedFull(max_candidates, min_similarity, max_length, has_fts3) ==
    /\ committed = [EmptyDB EXCEPT !.triggers = has_fts3]
    /\ tm_db = (MainThread :> NewConn)
    /\ tm_dbs = [dict |-> 1, made |-> 1]
    /\ fts3 = has_fts3
    /\ ctor = [t \in Threads |-> Idle]
    /\ objs = {[dict |-> 1, fulltext |-> has_fts3, by |-> MainThread]}
    /\ inst = [max_candidates |-> max_candidates, min_similarity |-> min_similarity,
               max_length |-> max_length, fulltext |-> has_fts3]
    /\ now = 0
    /\ last = Call("init", MainThread, "ok", 0)
    /\ leftover = [t \in Threads |-> NoIds]
    /\ batches = [t \in Threads |-> NoBatch]

\* the same with the default min_similarity
ConstructedWith(max_candidates, max_length, has_fts3) ==
    ConstructedFull(max_candidates, DefaultMinSimilarity, max_length, has_fts3)

\* the same with the default max_length, on a build with fts3
Constructed(max_candidates) == ConstructedWith(max_candidates, DefaultMaxLength, TRUE)

-----------------------------------------------------------------------------
(* Actions: one per operation *)

Tick ==
    /\ now < MaxTime
    /\ now' = now + 1
    /\ UNCHANGED <<committed, tm_db, tm_dbs, fts3, ctor, objs, inst, last, leftover, lenIn, batches>>

Store(r, t, batch, call) ==
    /\ committed' = r.w.committed
    /\ tm_db' = r.w.tm_db
    /\ leftover' = Leftover(World, r, t, batch)
    /\ last' = [call EXCEPT !.commits = r.w.commits]
    /\ UNCHANGED <<tm_dbs, fts3, ctor, objs, inst, now, lenIn, batches>>

AddDict(t, unit, source_lang, target_lang, commit) ==
    \E r \in {add_dict(World, t, unit, source_lang, target_lang, commit, now)} :
          Store(r, t, FALSE,
                 [Call("add_dict", t, r.exc, 0) EXCEPT !.commit = commit, !.n = 1])

AddUnit(t, unit, source_lang, target_lang, commit) ==
    \E r \in {add_unit(World, t, unit, source_lang, target_lang, commit, now)} :
          Store(r, t, FALSE,
                 [Call("add_unit", t, r.exc, 0) EXCEPT
                    !.commit = commit, !.n = 1,
                    !.args = [sourcelanguage |-> unit.sourcelanguage,
                              targetlanguage |-> unit.targetlanguage,
                              source_lang |-> source_lang, target_lang |-> target_lang]])

AddList(t, units, source_lang, target_lang, commit) ==
    \E r \in {add_list(World, t, units, source_lang, target_lang, commit, now)} :
          Store(r, t, TRUE,
                 [Call("add_list", t, r.exc, r.count) EXCEPT
                    !.commit = commit, !.n = Len(units)])

AddStore(t, units, source_lang, target_lang, commit) ==
    \E r \in {add_store(World, t, units, source_lang, target_lang, commit, now)} :
          Store(r, t, TRUE,
                 [Call("add_store", t, r.exc, r.count) EXCEPT
                    !.commit = commit,
                    !.n = Len(SelectSeq(units, LAMBDA u : u.translatable /\ u.translated))])

\* line 58: if db_file not in self._tm_dbs
CheckRegistry(t) ==
    /\ ctor[t].pc = "idle"
    /\ ctor' = [ctor EXCEPT ![t] = [Idle EXCEPT !.missing = (tm_dbs.dict = 0),
                                                !.pc = IF tm_dbs.dict = 0 THEN "assign" ELSE "bind"]]
    /\ UNCHANGED <<committed, tm_db, tm_dbs, fts3, objs, inst, now, last, leftover, lenIn, batches>>

\* line 59: self._tm_dbs[db_file] = {}
Register(t) ==
    /\ ctor[t].pc = "assign"
    /\ tm_dbs' = [dict |-> tm_dbs.made + 1, made |-> tm_dbs.made + 1]
    /\ ctor' = [ctor EXCEPT ![t].pc = "bind"]
    /\ UNCHANGED <<committed, tm_db, fts3, objs, inst, now, last, leftover, lenIn, batches>>

\* line 60: self._tm_db = self._tm_dbs[db_file]
Bind(t) ==
    /\ ctor[t].pc = "bind"
    /\ ctor' = [ctor EXCEPT ![t].pc = "init", ![t].dict = tm_dbs.dict]
    /\ UNCHANGED <<committed, tm_db, tm_dbs, fts3, objs, inst, now, last, leftover, lenIn, batches>>

\* lines 62-69: the rest of the constructor
Initialise(t, fault) ==
    /\ ctor[t].pc = "init"
    /\ \E r \in {construct(World, Key(ctor[t].dict, t), fts3, fault)} :
          /\ committed' = r.w.committed
          /\ tm_db' = r.w.tm_db
          /\ ctor' = [ctor EXCEPT ![t].pc = "idle", ![t].exc = r.exc, ![t].fault = fault,
                                  ![t].failed = r.failed, ![t].fulltext = r.fulltext]
          /\ objs' = IF r.exc = "ok"
                     THEN objs \cup {[dict |-> ctor[t].dict, fulltext |-> r.fulltext, by |-> t]}
                     ELSE objs
          /\ last' = [Call("init", t, r.exc, r.count) EXCEPT !.commits = r.w.commits]
    /\ UNCHANGED <<tm_dbs, fts3, inst, now, leftover, lenIn, batches>>

\* what the end of the constructor leaves: the instance, if it was made
Finish(t, w, exc, fault, failed, fulltext) ==
    /\ committed' = w.committed
    /\ tm_db' = w.tm_db
    /\ ctor' = [ctor EXCEPT ![t].pc = "idle", ![t].exc = exc, ![t].fault = fault,
                            ![t].failed = failed, ![t].fulltext = fulltext]
    /\ objs' = IF exc = "ok"
               THEN objs \cup {[dict |-> ctor[t].dict, fulltext |-> fulltext, by |-> t]}
               ELSE objs
    /\ last' = [Call("init", t, exc,
                     IF exc = "ok" THEN preload_db(View(w, Key(ctor[t].dict, t)), fulltext) ELSE 0)
                  EXCEPT !.commits = w.commits]

\* lines 62-65 up to the end of the try block of init_fulltext, and lines 67-69
\* when the block did not raise
InitTry(t, fault) ==
    /\ ctor[t].pc = "init"
    /\ \E d \in {init_database(World, Key(ctor[t].dict, t), fault)} :
          IF d.exc # "ok" THEN Finish(t, d.w, d.exc, fault, FALSE, FALSE)
          ELSE \E try \in {FulltextTry(d.w, Key(ctor[t].dict, t), fts3)} :
                  IF ~try.raised THEN Finish(t, try.w, "ok", fault, FALSE, TRUE)
                  ELSE /\ committed' = try.w.committed
                       /\ tm_db' = try.w.tm_db
                       /\ ctor' = [ctor EXCEPT ![t].pc = "handler", ![t].fault = fault]
                       /\ UNCHANGED <<objs, last>>
    /\ UNCHANGED <<tm_dbs, fts3, inst, now, leftover, lenIn, batches>>

\* lines 167-175, the handler of init_fulltext, and lines 67-69 when it returns
InitHandler(t) ==
    /\ ctor[t].pc = "handler"
    /\ \E h \in {FulltextHandler(World, Key(ctor[t].dict, t))} :
          Finish(t, h.w, h.exc, FALSE, TRUE, FALSE)
    /\ UNCHANGED <<tm_dbs, fts3, inst, now, leftover, lenIn, batches>>

\* preload_db called on the instance by thread t: the SELECT COUNT(*) and its result
PreloadDb(t) ==
    \E w \in {get_connection(World, t)} :
        /\ tm_db' = w.tm_db
        /\ last' = Call("preload_db", t, "ok", preload_db(View(w, t), inst.fulltext))
        /\ UNCHANGED <<committed, tm_dbs, fts3, ctor, objs, inst, now, leftover, lenIn, batches>>

\* line 334: length / (min_similarity / 100.0) divides by zero for a min_similarity of 0
DividesByZero(min_similarity) == min_similarity = 0

TranslateUnit(t, unit_source, source_langs, target_langs) ==
    IF DividesByZero(inst.min_similarity)
    THEN /\ last' = [Call("translate_unit", t, "ZeroDivisionError", 0) EXCEPT
                       !.args = [unit_source |-> unit_source, source_langs |-> source_langs,
                                 target_langs |-> target_langs]]
         /\ UNCHANGED <<committed, tm_db, tm_dbs, fts3, ctor, objs, inst, now, leftover, lenIn,
                        batches>>
    ELSE
    LET w == get_connection(World, t)
        db == View(w, t)
    IN  \E rows \in Orders(QueryRows(db, inst, unit_source, source_langs, target_langs)) :
          \E sorted \in {Results(db, inst, unit_source, rows)} :
              /\ tm_db' = w.tm_db
              /\ last' = [op |-> "translate_unit", t |-> t, exc |-> "ok", count |-> 0,
                          commit |-> FALSE, n |-> 0, commits |-> 0,
                          args |-> [unit_source |-> unit_source, source_langs |-> source_langs,
                                    target_langs |-> target_langs],
                          matching |-> IF UseFulltext(inst, unit_source)
                                       THEN "fulltext" ELSE "nonfulltext",
                          rows |-> rows,
                          results |-> [n \in 1..Len(sorted) |->
                                         [source |-> sorted[n].source, target |-> sorted[n].target,
                                          context |-> sorted[n].context,
                                          quality |-> sorted[n].quality]],
                          order |-> [n \in 1..Len(sorted) |-> sorted[n].pos]]
              /\ UNCHANGED <<committed, tm_dbs, fts3, ctor, objs, inst, now, leftover, lenIn,
                             batches>>

-----------------------------------------------------------------------------
(* add_list and add_store taken one loop iteration at a time, so that other *)
(* threads act between the insertions of one batch                          *)

\* a variant whose insertions commit one by one
BatchInsertCommitted(w, t, op, unit, source_lang, target_lang, time) ==
    IF op = "add_list" THEN add_dict(w, t, unit, source_lang, target_lang, TRUE, time)
    ELSE add_unit(w, t, unit, source_lang, target_lang, TRUE, time)

\* lines 266 and 253: the insertion of one unit of the batch, with commit=False
BatchInsert(w, t, op, unit, source_lang, target_lang, time) ==
    IF op = "add_list" THEN add_dict(w, t, unit, source_lang, target_lang, FALSE, time)
    ELSE add_unit(w, t, unit, source_lang, target_lang, FALSE, time)

\* line 252: add_store passes over the units that are not translated
Skipped(op, unit) == op = "add_store" /\ ~(unit.translatable /\ unit.translated)

\* the record of a batch call that has not returned yet
Running(b, t) == [Call(b.op, t, "running", b.count) EXCEPT !.commit = b.commit, !.n = Len(b.units)]

\* lines 250 and 264: the call starts with count = 0
BatchBegin(t, op, units, source_lang, target_lang, commit) ==
    /\ batches[t].pc # "loop"
    /\ \E b \in {[pc |-> "loop", op |-> op, units |-> units, i |-> 1, count |-> 0,
                  commit |-> commit, source_lang |-> source_lang,
                  target_lang |-> target_lang, ids |-> NoIds]} :
          /\ batches' = [batches EXCEPT ![t] = b]
          /\ last' = Running(b, t)
    /\ UNCHANGED <<committed, tm_db, tm_dbs, fts3, ctor, objs, inst, now, leftover, lenIn>>

\* lines 251-254 and 265-267: one iteration of the loop; an exception ends the call
BatchStep(t) ==
    /\ batches[t].pc = "loop"
    /\ batches[t].i <= Len(batches[t].units)
    /\ LET b == batches[t]
           unit == b.units[b.i]
       IN  IF Skipped(b.op, unit)
           THEN /\ batches' = [batches EXCEPT ![t].i = @ + 1]
                /\ UNCHANGED <<committed, tm_db, last, leftover>>
           ELSE \E r \in {BatchInsert(World, t, b.op, unit, b.source_lang, b.target_lang, now)} :
                  \E ids \in {[sources |-> b.ids.sources \cup NewIds(World, r.w, t).sources,
                               targets |-> b.ids.targets \cup NewIds(World, r.w, t).targets]} :
                     /\ committed' = r.w.committed
                     /\ tm_db' = r.w.tm_db
                     /\ IF r.exc = "ok"
                        THEN /\ batches' = [batches EXCEPT ![t].i = @ + 1, ![t].count = @ + 1,
                                                           ![t].ids = ids]
                             /\ last' = Running([b EXCEPT !.count = @ + 1], t)
                             /\ UNCHANGED leftover
                        ELSE /\ batches' = [batches EXCEPT ![t].pc = "raised", ![t].ids = ids]
                             /\ last' = [Running(b, t) EXCEPT !.exc = r.exc]
                             /\ leftover' = [leftover EXCEPT ![t] =
                                               [sources |-> @.sources \cup ids.sources,
                                                targets |-> @.targets \cup ids.targets]]
    /\ UNCHANGED <<tm_dbs, fts3, ctor, objs, inst, now, lenIn>>

\* lines 255-257 and 268-270: the final commit and the return of count
BatchCommit(t) ==
    /\ batches[t].pc = "loop"
    /\ batches[t].i > Len(batches[t].units)
    /\ \E r \in {BatchEnd([w |-> World, exc |-> "ok", count |-> batches[t].count],
                          t, batches[t].commit)} :
          /\ committed' = r.w.committed
          /\ tm_db' = r.w.tm_db
          /\ batches' = [batches EXCEPT ![t].pc = "done"]
          /\ last' = [Running(batches[t], t) EXCEPT !.exc = "ok", !.commits = r.w.commits]
    /\ UNCHANGED <<tm_dbs, fts3, ctor, objs, inst, now, leftover, lenIn>>

-----------------------------------------------------------------------------
(* Spec: the store under inserts, single and in batches, with and without commit *)

NoLen == [length |-> 0, similarity |-> DefaultMinSimilarity, cap |-> DefaultMaxLength,
          min |-> 0, max |-> 0, done |-> FALSE]

Init == Constructed(DefaultMaxCandidates) /\ lenIn = NoLen

Next ==
    \/ Tick
    \/ \E unit \in StoreDicts, commit \in BOOLEAN :
          Room(MainThread, 1, MaxRows) /\ AddDict(MainThread, unit, "en", "fr", commit)
    \/ \E unit \in StoreUnits, langs \in UnitLangs, commit \in BOOLEAN :
          Room(MainThread, 1, MaxRows) /\ AddUnit(MainThread, unit, langs[1], langs[2], commit)
    \/ \E units \in SeqsUpTo(StoreDicts, MaxBatch), commit \in BOOLEAN :
          Room(MainThread, Len(units), MaxRows) /\ AddList(MainThread, units, "en", "fr", commit)
    \/ \E units \in SeqsUpTo(BatchUnits, MaxBatch), commit \in BOOLEAN :
          Room(MainThread, Len(units), MaxRows) /\ AddStore(MainThread, units, None, None, commit)

Spec == Init /\ [][Next]_vars

-----------------------------------------------------------------------------
(* SpecQuery: translate_unit on the stores that committed inserts build *)

InitQuery ==
    \E max_candidates \in {0, 1, MaxCand, DefaultMaxCandidates} :
        Constructed(max_candidates) /\ lenIn = NoLen

NextQuery ==
    \/ \E ins \in QueryInserts :
          Room(MainThread, 1, MaxStored) /\ AddDict(MainThread, ins[1], ins[2], ins[3], TRUE)
    \/ \E langs \in QueryLangs : TranslateUnit(MainThread, abc, langs[1], langs[2])

SpecQuery == InitQuery /\ [][NextQuery]_vars

-----------------------------------------------------------------------------
(* SpecLen: the two length functions on every length, similarity and cap *)

Caps == (0..MaxCap) \cup {DefaultMaxLength}

InitLen ==
    /\ Constructed(DefaultMaxCandidates)
    /\ lenIn \in [length : 0..MaxLength, similarity : 1..100, cap : Caps,
                  min : {0}, max : {0}, done : {FALSE}]

Evaluate ==
    /\ ~lenIn.done
    /\ lenIn' = [lenIn EXCEPT
                   !.min = min_levenshtein_length(lenIn.length, lenIn.similarity),
                   !.max = max_levenshtein_length(lenIn.length, lenIn.similarity, lenIn.cap),
                   !.done = TRUE]
    /\ UNCHANGED <<committed, tm_db, tm_dbs, fts3, ctor, objs, inst, now, last, leftover, batches>>

NextLen == Evaluate

SpecLen == InitLen /\ [][NextLen]_vars

-----------------------------------------------------------------------------
(* SpecExact: queries for the very texts that were stored, short ones too *)

a1 == <<"a">>
ExactTexts == {a1, abc}

InitExact == Constructed(DefaultMaxCandidates) /\ lenIn = NoLen

ExactDicts == {Dict(s, target, "ctx") : s \in ExactTexts, target \in {"x", "y"}}
ExactSourceLangs == {Str("en"), Str("EN")}
ExactTargetLangs == {Str("fr")}

NextExact ==
    \/ \E unit \in ExactDicts, sl \in {"en", "EN"} :
          /\ Room(MainThread, 1, MaxStored)
          /\ AddDict(MainThread, unit, sl, "fr", TRUE)
    \/ \E s \in ExactTexts, sl \in ExactSourceLangs, tl \in ExactTargetLangs :
          TranslateUnit(MainThread, s, sl, tl)

SpecExact == InitExact /\ [][NextExact]_vars

-----------------------------------------------------------------------------
(* SpecCtor: threads that construct instances on one file, from a process   *)
(* without any, and insert through the instances they made                  *)

CtorDicts == {Dict(abc, "x", "ctx")}

InitCtor ==
    /\ committed = EmptyDB
    /\ tm_db = [k \in {} |-> NewConn]
    /\ tm_dbs = [dict |-> 0, made |-> 0]
    /\ fts3 \in BOOLEAN
    /\ ctor = [t \in Threads |-> Idle]
    /\ objs = {}
    /\ inst = [max_candidates |-> DefaultMaxCandidates, min_similarity |-> DefaultMinSimilarity,
               max_length |-> DefaultMaxLength, fulltext |-> FALSE]
    /\ now = 0
    /\ last = Call("none", MainThread, "ok", 0)
    /\ leftover = [t \in Threads |-> NoIds]
    /\ batches = [t \in Threads |-> NoBatch]
    /\ lenIn = NoLen

NextCtor ==
    \/ \E t \in Threads : CheckRegistry(t)
    \/ \E t \in Threads : Register(t)
    \/ \E t \in Threads : Bind(t)
    \/ \E t \in Threads, fault \in BOOLEAN : Initialise(t, fault)
    \/ \E o \in objs, unit \in CtorDicts, commit \in BOOLEAN :
          /\ ctor[o.by].pc = "idle"
          /\ Room(Key(o.dict, o.by), 1, MaxRows)
          /\ AddDict(Key(o.dict, o.by), unit, "en", "fr", commit)

SpecCtor == InitCtor /\ [][NextCtor]_vars

-----------------------------------------------------------------------------
(* SpecIndex: further constructors on the file of a constructed instance,   *)
(* and inserts of two threads, where the other thread may act between the   *)
(* try block of init_fulltext and its handler                               *)

IndexDicts == {Dict(abc, "x", "ctx"), Dict(abb, "x", "ctx")}

InitIndex == Constructed(DefaultMaxCandidates) /\ lenIn = NoLen

NextIndex ==
    \/ \E t \in Threads : CheckRegistry(t)
    \/ \E t \in Threads : Bind(t)
    \/ \E t \in Threads : InitTry(t, FALSE)
    \/ \E t \in Threads : InitHandler(t)
    \/ \E o \in objs, unit \in IndexDicts, commit \in BOOLEAN :
          /\ ctor[o.by].pc = "idle"
          /\ Room(Key(o.dict, o.by), 1, MaxRows)
          /\ AddDict(Key(o.dict, o.by), unit, "en", "fr", commit)

SpecIndex == InitIndex /\ [][NextIndex]_vars

-----------------------------------------------------------------------------
(* SpecNull: add_dict on dictionaries and languages with a missing value *)

NullDicts == {Dict(abc, "x", "ctx"), Dict(abb, "x", "ctx"), Dict(abc, None, "ctx")}
NullLangs == {<<"en", "fr">>, <<None, "fr">>, <<"en", None>>}

InitNull == Constructed(DefaultMaxCandidates) /\ lenIn = NoLen

NextNull ==
    \/ Tick
    \/ \E unit \in NullDicts, langs \in NullLangs, commit \in BOOLEAN :
          Room(MainThread, 1, MaxStored) /\ AddDict(MainThread, unit, langs[1], langs[2], commit)

SpecNull == InitNull /\ [][NextNull]_vars

-----------------------------------------------------------------------------
(* SpecLexical: queries of three and of four words, on builds with and      *)
(* without fts3, against stored texts of several words                      *)

LexDicts == {Dict(s, "x", "ctx") : s \in {Words4, Words4b, Other4, Words3}}
LexQueries == {Words4, Words3, Short4, Punct4}
LexSourceLangs == {Str("en")}
LexTargetLangs == {Str("fr")}

InitLexical ==
    \E has_fts3 \in BOOLEAN :
        ConstructedWith(DefaultMaxCandidates, DefaultMaxLength, has_fts3) /\ lenIn = NoLen

NextLexical ==
    \/ \E unit \in LexDicts :
          Room(MainThread, 1, MaxRows) /\ AddDict(MainThread, unit, "en", "fr", TRUE)
    \/ \E q \in LexQueries, sl \in LexSourceLangs, tl \in LexTargetLangs :
          TranslateUnit(MainThread, q, sl, tl)

SpecLexical == InitLexical /\ [][NextLexical]_vars

-----------------------------------------------------------------------------
(* SpecBatch: the main thread in add_list or add_store, iteration by        *)
(* iteration, while the other thread queries and inserts on its connection  *)

BatchLists == {<<Dict(abc, "x", "ctx"), Dict(abb, "x", "ctx")>>,
               <<Dict(abc, "x", "ctx"), BadDict>>}
BatchStores == {<<Unit(abcc, "x", "ctx", "en", "fr", TRUE), Unit(abb, "x", "ctx", None, None, TRUE)>>,
                <<Unit(abc, "x", "ctx", None, None, FALSE), Unit(abcc, "y", "ctx", "en", None, TRUE)>>}
BatchDicts == {Dict(abc, "y", "ctx")}

InitBatch == Constructed(DefaultMaxCandidates) /\ lenIn = NoLen

NextBatch ==
    \/ \E units \in BatchLists, commit \in BOOLEAN :
          BatchBegin(MainThread, "add_list", units, "en", "fr", commit)
    \/ \E units \in BatchStores, commit \in BOOLEAN :
          BatchBegin(MainThread, "add_store", units, None, "fr", commit)
    \/ Room(MainThread, 1, MaxRows) /\ BatchStep(MainThread)
    \/ BatchCommit(MainThread)
    \/ \E t \in Threads \ {MainThread}, unit \in BatchDicts :
          Room(t, 1, MaxRows) /\ AddDict(t, unit, "en", "fr", TRUE)
    \/ \E t \in Threads \ {MainThread}, sl \in LexSourceLangs, tl \in LexTargetLangs :
          TranslateUnit(t, abc, sl, tl)

SpecBatch == InitBatch /\ [][NextBatch]_vars

-----------------------------------------------------------------------------
(* SpecCap: instances with a small and with the default max_length, and     *)
(* queries that are longer than the small one                               *)

abccc == abcc \o <<"c">>
CapDicts == {Dict(s, "x", "ctx") : s \in {abc, abcc, abccc}}
CapQueries == {abc, abcc, abccc}

InitCap ==
    \E max_length \in {MaxCap, DefaultMaxLength} :
        ConstructedWith(DefaultMaxCandidates, max_length, TRUE) /\ lenIn = NoLen

NextCap ==
    \/ \E unit \in CapDicts :
          Room(MainThread, 1, MaxStored) /\ AddDict(MainThread, unit, "en", "fr", TRUE)
    \/ \E s \in CapQueries, sl \in LexSourceLangs, tl \in LexTargetLangs :
          TranslateUnit(MainThread, s, sl, tl)

SpecCap == InitCap /\ [][NextCap]_vars

-----------------------------------------------------------------------------
(* SpecLang: inserts and queries under language codes in several spellings *)

LangDicts == {Dict(abc, "x", "ctx"), Dict(abcc, "x", "ctx")}
LangPairs == {<<"EN", "pt_BR">>, <<"en", "fr">>, <<"de", "fr">>}
LangSourceCodes == {Str("en"), Str("EN"), Str("de")}
LangTargetCodes == {Str("pt-br"), Str("pt_BR"), Str("fr")}

InitLang == Constructed(DefaultMaxCandidates) /\ lenIn = NoLen

NextLang ==
    \/ \E unit \in LangDicts, langs \in LangPairs :
          Room(MainThread, 1, MaxRows) /\ AddDict(MainThread, unit, langs[1], langs[2], TRUE)
    \/ \E sl \in LangSourceCodes, tl \in LangTargetCodes :
          TranslateUnit(MainThread, abc, sl, tl)

SpecLang == InitLang /\ [][NextLang]_vars

-----------------------------------------------------------------------------
(* SpecRefs: inserts of several translations of one text, alone and in      *)
(* lists, with and without commit, some of which fail                       *)

RefDicts == {Dict(abc, "x", "ctx"), Dict(abc, "y", "ctx"), Dict(abc, "x", None), BadDict}
RefLangs == {<<"en", "fr">>, <<"en", "de">>, <<None, "fr">>}
RefLists == {<<Dict(abc, "x", "ctx"), Dict(abc, "y", "ctx")>>, <<Dict(abc, "x", "ctx"), BadDict>>}

InitRefs == Constructed(DefaultMaxCandidates) /\ lenIn = NoLen

NextRefs ==
    \/ \E unit \in RefDicts, langs \in RefLangs, commit \in BOOLEAN :
          Room(MainThread, 1, MaxStored) /\ AddDict(MainThread, unit, langs[1], langs[2], commit)
    \/ \E units \in RefLists, langs \in RefLangs, commit \in BOOLEAN :
          /\ Room(MainThread, Len(units), MaxStored)
          /\ AddList(MainThread, units, langs[1], langs[2], commit)

SpecRefs == InitRefs /\ [][NextRefs]_vars

-----------------------------------------------------------------------------
(* SpecSim: queries through instances of several min_similarity, the ends   *)
(* of the range 0..100 among them                                           *)

Sims == {0, 1, 50, DefaultMinSimilarity, 100}
SimDicts == {Dict(s, "x", "ctx") : s \in {abc, abcc, abb}}
SimQueries == {abc, abcc}

InitSim ==
    \E min_similarity \in Sims :
        /\ ConstructedFull(DefaultMaxCandidates, min_similarity, DefaultMaxLength, TRUE)
        /\ lenIn = NoLen

NextSim ==
    \/ \E unit \in SimDicts :
          Room(MainThread, 1, MaxRows) /\ AddDict(MainThread, unit, "en", "fr", TRUE)
    \/ \E s \in SimQueries, sl \in LexSourceLangs, tl \in LexTargetLangs :
          TranslateUnit(MainThread, s, sl, tl)

SpecSim == InitSim /\ [][NextSim]_vars

-----------------------------------------------------------------------------
(* SpecRead: translate_unit and preload_db of two threads, between inserts  *)
(* with and without commit                                                  *)

ReadDicts == {Dict(abc, "x", "ctx"), Dict(Words4, "x", "ctx")}
ReadQueries == {abc, Words4}

InitRead ==
    \E min_similarity \in {0, DefaultMinSimilarity} :
        /\ ConstructedFull(DefaultMaxCandidates, min_similarity, DefaultMaxLength, TRUE)
        /\ lenIn = NoLen

NextRead ==
    \/ \E t \in Threads, unit \in ReadDicts, commit \in BOOLEAN :
          Room(t, 1, MaxRows) /\ AddDict(t, unit, "en", "fr", commit)
    \/ \E t \in Threads, s \in ReadQueries, sl \in LexSourceLangs, tl \in LexTargetLangs :
          TranslateUnit(t, s, sl, tl)
    \/ \E t \in Threads : PreloadDb(t)

SpecRead == InitRead /\ [][NextRead]_vars

-----------------------------------------------------------------------------
(* Properties *)

\* the databases in the state: the file and the uncommitted view of every writer
Dbs == {committed} \cup {tm_db[t].db : t \in {u \in DOMAIN tm_db : tm_db[u].txn = "write"}}

SameSource(a, b) == a.text = b.text /\ a.context = b.context /\ a.lang = b.lang

\* C1: the sources table holds at most one row per (text, context, language),
\* for every context, NULL included
C1_SourceUnique ==
    \A db \in Dbs : \A i, j \in 1..Len(db.sources) :
        SameSource(db.sources[i], db.sources[j]) => i = j

SourceOf(db, target) == CHOOSE s \in Range(db.sources) : s.sid = target.sid

\* C2: one (source, target text, target language) pair inserted more than once
\* through add_dict has exactly one target row
C2_OneTargetPerPair ==
    \A db \in Dbs : \A i, j \in 1..Len(db.targets) :
        ( /\ SameSource(SourceOf(db, db.targets[i]), SourceOf(db, db.targets[j]))
          /\ db.targets[i].text = db.targets[j].text
          /\ db.targets[i].lang = db.targets[j].lang ) => i = j

IsQuery == last.op = "translate_unit"
Db == View(World, last.t)
Returned == last.results
Query == last.args.unit_source

\* the comparer's score of the n-th row of the cursor
RowQuality(n) == similarity(Query, Db.sources[last.rows[n][1]].text)

\* the rows of the cursor that reach min_similarity
Kept == {n \in 1..Len(last.rows) : RowQuality(n) >= inst.min_similarity}

\* the stored pairs a query for the languages of a list and one target language
\* is to return: the language, length and similarity filters applied to the join
Eligible(db, source_langs, target_lang) ==
    {p \in (1..Len(db.sources)) \X (1..Len(db.targets)) :
        /\ db.sources[p[1]].sid = db.targets[p[2]].sid
        /\ \E k \in 1..Len(source_langs) : db.sources[p[1]].lang = normalize_code(source_langs[k])
        /\ db.targets[p[2]].lang = normalize_code(target_lang)
        /\ db.sources[p[1]].length >= min_levenshtein_length(Len(Query), inst.min_similarity)
        /\ db.sources[p[1]].length <=
               max_levenshtein_length(Len(Query), inst.min_similarity, inst.max_length)
        /\ similarity(Query, db.sources[p[1]].text) >= inst.min_similarity}

\* C3: a query with a list of source languages and one target language returns
\* the stored pairs of any language of the list (as many as max_candidates allows)
C3_ListQueryFindsMembers ==
    (IsQuery /\ last.args.source_langs.isList /\ ~last.args.target_langs.isList
        /\ ~Falsy(last.args.target_langs.str))
    => Len(Returned) = Min(inst.max_candidates,
                          Cardinality(Eligible(Db, last.args.source_langs.list,
                                               last.args.target_langs.str)))

\* C4: no row that a batch insert that raised had inserted is in the committed store
C4_BatchAllOrNothing ==
    \A t \in Threads :
        /\ \A sid \in leftover[t].sources : sid > Len(committed.sources)
        /\ \A tid \in leftover[t].targets : tid > Len(committed.targets)

\* C5: translate_unit returns at most max_candidates entries
C5_AtMostMaxCandidates == IsQuery => Len(Returned) <= inst.max_candidates

C5_Witness ==
    /\ IsQuery /\ inst.max_candidates > 0
    /\ Cardinality(Kept) > inst.max_candidates
    /\ Len(Returned) = inst.max_candidates

\* C6: every entry returned has quality >= min_similarity, and its quality is
\* the comparer's score of the query against the entry's source text
C6_QualityAtLeastMin ==
    IsQuery => \A a \in 1..Len(Returned) :
        /\ Returned[a].quality >= inst.min_similarity
        /\ Returned[a].quality = similarity(Query, Returned[a].source)

C6_Witness ==
    /\ IsQuery /\ Returned # <<>>
    /\ \E n \in 1..Len(last.rows) : n \notin Kept

\* C7: the entries are in non-increasing order of quality, entries of equal
\* quality in the order of the cursor, and the entries cut off by max_candidates
\* are the last ones of that order
C7_SortedStable ==
    IsQuery =>
        /\ \A a \in 1..Len(Returned) :
              /\ last.order[a] \in Kept
              /\ Returned[a].quality = RowQuality(last.order[a])
              /\ Returned[a].source = Db.sources[last.rows[last.order[a]][1]].text
        /\ \A a, b \in 1..Len(Returned) :
              a < b => \/ Returned[a].quality > Returned[b].quality
                       \/ /\ Returned[a].quality = Returned[b].quality
                          /\ last.order[a] < last.order[b]
        /\ \A n \in Kept \ Range(last.order) : \A a \in 1..Len(Returned) :
              \/ Returned[a].quality > RowQuality(n)
              \/ Returned[a].quality = RowQuality(n) /\ last.order[a] < n

C7_Witness ==
    /\ IsQuery
    /\ \E a \in 1..Len(Returned), n \in Kept \ Range(last.order) :
          Returned[a].quality = RowQuality(n) /\ last.order[a] < n
    /\ \E a, b \in 1..Len(Returned) : a < b /\ last.order[a] > last.order[b]

\* the last call was add_unit on a unit for which a side has no language:
\* the unit reports none and the argument is empty or None
Unresolved(call) ==
    /\ call.op = "add_unit"
    /\ \/ Falsy(call.args.sourcelanguage) /\ Falsy(call.args.source_lang)
       \/ Falsy(call.args.targetlanguage) /\ Falsy(call.args.target_lang)

\* C8: add_unit on a unit without a source or a target language raises
\* LanguageError and leaves the tables, committed and pending, as they were
C8_NoLanguageNoInsert ==
    [][Unresolved(last') => /\ last'.exc = "LanguageError"
                            /\ committed' = committed
                            /\ tm_db' = tm_db]_vars

C8_Witness ==
    /\ last.op = "add_unit" /\ last.exc = "LanguageError"
    /\ tm_db[MainThread].txn = "write"
    /\ Len(tm_db[MainThread].db.sources) > Len(committed.sources)

Invalid(langs) == IF langs.isList THEN langs.list = <<>> ELSE Falsy(langs.str)

\* C9: translate_unit with an empty or missing language input raises LanguageError
C9_InvalidLangsRaise ==
    (IsQuery /\ (Invalid(last.args.source_langs) \/ Invalid(last.args.target_langs)))
    => last.exc = "LanguageError"

\* C10: min_levenshtein_length <= max_levenshtein_length for every length >= 0,
\* similarity in (0, 100] and cap
C10_MinLeMax == lenIn.done => lenIn.min <= lenIn.max

\* C10 as amended: min <= max exactly when the cap is at least the minimum and
\* the length is at least 2, or 1 with a similarity of at most 50
C10_MinLeMaxAmended ==
    lenIn.done =>
        (lenIn.min <= lenIn.max <=>
            /\ lenIn.cap >= lenIn.min
            /\ lenIn.length >= 2 \/ (lenIn.length = 1 /\ lenIn.similarity <= 50))

C10_Witness ==
    /\ lenIn.done /\ lenIn.length >= 2 /\ lenIn.similarity = DefaultMinSimilarity
    /\ lenIn.cap = DefaultMaxLength /\ lenIn.min < lenIn.max

\* the committed pairs whose source text is the query and whose languages are
\* the ones asked for
ExactPairs ==
    {p \in (1..Len(committed.sources)) \X (1..Len(committed.targets)) :
        /\ committed.sources[p[1]].sid = committed.targets[p[2]].sid
        /\ committed.sources[p[1]].text = Query
        /\ committed.sources[p[1]].lang = normalize_code(last.args.source_langs.str)
        /\ committed.targets[p[2]].lang = normalize_code(last.args.target_langs.str)}

\* C11: a query for a text that is stored and committed under the languages
\* asked for returns every such pair with quality 100
C11_ExactMatchReturned ==
    (IsQuery /\ ~last.args.source_langs.isList /\ ~last.args.target_langs.isList)
    => \A p \in ExactPairs : \E a \in 1..Len(Returned) :
          /\ Returned[a].source = Query
          /\ Returned[a].target = committed.targets[p[2]].text
          /\ Returned[a].quality = 100

InsertOps == {"add_dict", "add_unit", "add_list", "add_store"}

\* C12: an insert called with commit=True that raised has left no transaction
\* with uncommitted rows on the connection of its thread
C12_RolledBackOnRaise ==
    (last.op \in InsertOps /\ last.commit /\ last.exc # "ok")
    => tm_db[last.t].txn # "write"

\* C13: an insert that returned with commit=True has committed, once, and left
\* no transaction open; with commit=False it has not committed and its rows are
\* in the open transaction of its thread
C13_CommitOnReturn ==
    (last.op \in InsertOps /\ last.exc = "ok")
    => IF last.commit
       THEN last.commits = 1 /\ tm_db[last.t].txn = "none"
       ELSE /\ last.commits = 0
            /\ last.n > 0 => tm_db[last.t].txn = "write"

C13_Witness ==
    /\ last.op = "add_list" /\ last.exc = "ok" /\ last.commit
    /\ last.n >= 2 /\ last.commits = 1
    /\ Len(committed.sources) >= 2

\* C14: all instances constructed for the file have the same connection cache
C14_SharedRegistry == \A a, b \in objs : a.dict = b.dict

\* the connection caches in which thread t has a connection
CachesOf(t) == {d \in 1..tm_dbs.made : Key(d, t) \in DOMAIN tm_db}

\* C15: a thread has at most one connection to the file
C15_OneConnectionPerThread == \A t \in Threads : Cardinality(CachesOf(t)) <= 1

\* C16: a constructor in which the initialisation of the fulltext index failed
\* has returned normally with fulltext False
C16_FulltextFailureCaught ==
    \A t \in Threads :
        (ctor[t].pc = "idle" /\ ctor[t].failed) => (ctor[t].exc = "ok" /\ ~ctor[t].fulltext)

\* thread t leaves its constructor in this step
Returns(t) == ctor[t].pc \in {"init", "handler"} /\ ctor'[t].pc = "idle"

C18_InitIdempotent ==
    [][\A t \in Threads :
          Returns(t)
          => /\ committed'.sources = View(World, Key(ctor[t].dict, t)).sources
             /\ committed'.targets = View(World, Key(ctor[t].dict, t)).targets
             /\ objs # {} => committed' = View(World, Key(ctor[t].dict, t))]_vars

C18_Witness ==
    /\ last.op = "init" /\ last.exc = "ok" /\ last.count > 0
    /\ Len(committed.sources) > 0 /\ Cardinality(objs) >= 2

\* C19: a batch insert that returns gives the number of records it was to
\* insert: the dictionaries of the list, the translatable and translated units
\* of the store
C19_CountAttempted ==
    (last.op \in {"add_list", "add_store"} /\ last.exc = "ok") => last.count = last.n

C19_Witness ==
    /\ last.op = "add_list" /\ last.exc = "ok" /\ last.count = 2
    /\ Len(View(World, last.t).sources) = 1

\* C20: a stored source in the language asked for whose similarity to the
\* query reaches min_similarity has a length within the bounds of the query
C20_LengthPruningSound ==
    IsQuery =>
        \A i \in 1..Len(Db.sources) :
            ( /\ LangIn(Db.sources[i].lang, NormLangs(last.args.source_langs))
              /\ similarity(Query, Db.sources[i].text) >= inst.min_similarity )
            => /\ Db.sources[i].length >=
                      min_levenshtein_length(Len(Query), inst.min_similarity)
               /\ Db.sources[i].length <=
                      max_levenshtein_length(Len(Query), inst.min_similarity, inst.max_length)

\* the entries of the index of db for source row i
EntriesOf(db, i) == {f \in db.fulltext : f.docid = db.sources[i].sid}

\* C21: while an instance has fulltext True, every source row, committed or
\* pending, has exactly one entry in the index, and the entry holds its text
C21_IndexInStep ==
    (\E o \in objs : o.fulltext)
    => \A db \in Dbs : \A i \in 1..Len(db.sources) :
          /\ Cardinality(EntriesOf(db, i)) = 1
          /\ \A f \in EntriesOf(db, i) : f.text = db.sources[i].text

\* an INSERT of add_dict with these values violates a NOT NULL constraint
NotNull(unit, source_lang, target_lang) ==
    \/ SourceNull(unit.source, normalize_code(source_lang))
    \/ TargetNull(unit.target, normalize_code(target_lang))

\* C22: an add_dict whose INSERT violates a NOT NULL constraint raises the
\* IntegrityError of the engine and, called with commit=True, has rolled back
C22_OtherErrorsReraised ==
    [][\A unit \in NullDicts, langs \in NullLangs, commit \in BOOLEAN :
          ( /\ NotNull(unit, langs[1], langs[2])
            /\ AddDict(MainThread, unit, langs[1], langs[2], commit) )
          => /\ last'.exc = "IntegrityError"
             /\ commit => (committed' = committed /\ tm_db'[MainThread].txn = "none")]_vars

\* the tokens of a text, as <<first, last>>: its maximal runs of word characters
Runs(text) ==
    {r \in (1..Len(text)) \X (1..Len(text)) :
        /\ r[1] <= r[2]
        /\ \A k \in r[1]..r[2] : text[k] \in WordChars
        /\ r[1] = 1 \/ text[r[1] - 1] \notin WordChars
        /\ r[2] = Len(text) \/ text[r[2] + 1] \notin WordChars}

\* the tokens longer than 2 characters
LongTokens(text) == {r \in Runs(text) : r[2] - r[1] + 1 > 2}

\* the index entry of source row i holds one of the long tokens of the query
SharesToken(db, i) ==
    \E f \in EntriesOf(db, i), q \in LongTokens(Query) :
        \E r \in Runs(f.text) : SubSeq(Query, q[1], q[2]) = SubSeq(f.text, r[1], r[2])

\* the joined rows within the language and length bounds of the last query
InBounds(db) ==
    {p \in (1..Len(db.sources)) \X (1..Len(db.targets)) :
        RowSelected(db, p[1], p[2], NormLangs(last.args.source_langs),
                    NormLangs(last.args.target_langs),
                    min_levenshtein_length(Len(Query), inst.min_similarity),
                    max_levenshtein_length(Len(Query), inst.min_similarity, inst.max_length))}

\* C23: translate_unit runs the fulltext query exactly when the instance has
\* fulltext and the query has more than 3 tokens longer than 2 characters; its
\* rows are then the rows within the bounds that hold one of these tokens, and
\* otherwise all the rows within the bounds
C23_LexicalIff ==
    IsQuery =>
        /\ last.matching = "fulltext"
              <=> (inst.fulltext /\ Cardinality(LongTokens(Query)) > 3)
        /\ Range(last.rows) =
              {p \in InBounds(Db) : last.matching = "fulltext" => SharesToken(Db, p[1])}

C23_Witness ==
    /\ IsQuery /\ last.matching = "fulltext" /\ last.rows # <<>>
    /\ Range(last.rows) # InBounds(Db)

\* the rows each of the two queries of translate_unit gives for the last query
PathRows(usefulltext) ==
    Candidates(Db, usefulltext, unit_words(Query), NormLangs(last.args.source_langs),
               NormLangs(last.args.target_langs),
               min_levenshtein_length(Len(Query), inst.min_similarity),
               max_levenshtein_length(Len(Query), inst.min_similarity, inst.max_length))

\* C26: the fulltext query gives a subset of the rows of the scan, and what a
\* query that ran it returned are rows of the scan
C26_LexicalNarrows ==
    IsQuery =>
        /\ PathRows(TRUE) \subseteq PathRows(FALSE)
        /\ last.matching = "fulltext" =>
              /\ Range(last.rows) \subseteq PathRows(FALSE)
              /\ \A a \in 1..Len(Returned) : \E p \in PathRows(FALSE) :
                    /\ Returned[a].source = Db.sources[p[1]].text
                    /\ Returned[a].target = Db.targets[p[2]].text

C26_Witness ==
    /\ IsQuery /\ last.matching = "fulltext" /\ Returned # <<>>
    /\ PathRows(TRUE) # PathRows(FALSE)

-----------------------------------------------------------------------------
\* the rows of the query of the last call that are rows the batch of thread t inserted
SeenOf(t) == {n \in 1..Len(last.rows) : last.rows[n][1] \in batches[t].ids.sources}

\* C24: while a thread is in the loop of add_list or add_store, no row the
\* batch has inserted is in the tables another thread reads, and none is among
\* the rows of a translate_unit of another thread; once the final commit of a
\* batch called with commit=True is done, every row it inserted is in the
\* tables every thread reads
C24_BatchAtomic ==
    \A t \in Threads :
        /\ batches[t].pc = "loop" =>
              /\ \A u \in Threads \ {t} :
                    /\ \A s \in batches[t].ids.sources : s > Len(View(World, u).sources)
                    /\ \A g \in batches[t].ids.targets : g > Len(View(World, u).targets)
              /\ last.op = "translate_unit" /\ last.t # t => SeenOf(t) = {}
        /\ batches[t].pc = "done" /\ batches[t].commit =>
              \A u \in Threads :
                    /\ \A s \in batches[t].ids.sources : s <= Len(View(World, u).sources)
                    /\ \A g \in batches[t].ids.targets : g <= Len(View(World, u).targets)

\* a query of the other thread has run after the first insertion of a batch
\* that is not over, and has found a row committed before
C24_Witness ==
    \E t \in Threads :
        /\ batches[t].pc = "loop"
        /\ batches[t].ids.sources # {}
        /\ batches[t].i <= Len(batches[t].units)
        /\ last.op = "translate_unit" /\ last.t # t
        /\ last.rows # <<>>

-----------------------------------------------------------------------------
\* C25: of every pair of strings that translate_unit gives to the comparer,
\* the query and the text of a row of the cursor, both have at most
\* max_length characters
C25_ComparedWithinMaxLength ==
    IsQuery =>
        \A n \in 1..Len(last.rows) :
            /\ Len(Query) <= inst.max_length
            /\ Len(Db.sources[last.rows[n][1]].text) <= inst.max_length

-----------------------------------------------------------------------------
\* the tables the thread of the last call reads after the step
DbAfter == View([committed |-> committed', tm_db |-> tm_db', commits |-> 0], last'.t)

\* the language of one side of a unit: the one the unit reports, else the argument
SideLang(own, arg) == IF own # None /\ own # "" THEN own ELSE arg

\* C27: add_unit stores a new source row under the source language the unit
\* reports, and under the source_lang argument only if the unit reports none;
\* the same for a new target row and the target language; it raises
\* LanguageError exactly when a side has neither
C27_UnitLanguageFirst ==
    [][last'.op = "add_unit" =>
          LET a == last'.args
              sl == SideLang(a.sourcelanguage, a.source_lang)
              tl == SideLang(a.targetlanguage, a.target_lang)
          IN  /\ last'.exc = "LanguageError" <=> (sl \in {None, ""} \/ tl \in {None, ""})
              /\ \A i \in (Len(View(World, last'.t).sources) + 1)..Len(DbAfter.sources) :
                    DbAfter.sources[i].lang = normalize_code(sl)
              /\ \A j \in (Len(View(World, last'.t).targets) + 1)..Len(DbAfter.targets) :
                    DbAfter.targets[j].lang = normalize_code(tl)]_vars

\* add_unit has stored a unit that reports its source language and not its
\* target language, under that source language and the target_lang argument
C27_Witness ==
    /\ last.op = "add_unit" /\ last.exc = "ok"
    /\ last.args.sourcelanguage = "de" /\ last.args.source_lang = "en"
    /\ last.args.targetlanguage = None /\ last.args.target_lang = "fr"
    /\ \E i \in 1..Len(Db.sources), j \in 1..Len(Db.targets) :
          /\ Db.targets[j].sid = Db.sources[i].sid
          /\ Db.sources[i].lang = "de"
          /\ Db.targets[j].lang = "fr"

-----------------------------------------------------------------------------
\* the spellings of one language code: data.normalize_code gives them one value
LangClasses == {{"en", "EN"}, {"pt-br", "pt_BR"}, {"fr"}, {"de"}}
SameCode(a, b) == \E c \in LangClasses : a \in c /\ b \in c

\* the codes in normal form: lower case, parts joined by "-"
NormalCodes == {"en", "pt-br", "fr", "de"}

\* the pairs of the tables after the step that the query of the step has to
\* find by its languages: the pairs within its length bounds whose languages
\* are spellings of the codes of the query
SameCodePairs ==
    {p \in (1..Len(DbAfter.sources)) \X (1..Len(DbAfter.targets)) :
        /\ DbAfter.sources[p[1]].sid = DbAfter.targets[p[2]].sid
        /\ DbAfter.sources[p[1]].length
              >= min_levenshtein_length(Len(last'.args.unit_source), inst.min_similarity)
        /\ DbAfter.sources[p[1]].length
              <= max_levenshtein_length(Len(last'.args.unit_source), inst.min_similarity,
                                        inst.max_length)
        /\ SameCode(DbAfter.sources[p[1]].lang, last'.args.source_langs.str)
        /\ SameCode(DbAfter.targets[p[2]].lang, last'.args.target_langs.str)}

\* C28: add_dict stores the rows it makes under the normal form of the codes
\* it is given, and the rows of a translate_unit under single codes are the
\* pairs within its length bounds stored under a spelling of those codes
C28_SameNormalisation ==
    [][/\ \A unit \in LangDicts, langs \in LangPairs :
             AddDict(MainThread, unit, langs[1], langs[2], TRUE) =>
                /\ \A i \in (Len(committed.sources) + 1)..Len(committed'.sources) :
                      /\ committed'.sources[i].lang \in NormalCodes
                      /\ SameCode(committed'.sources[i].lang, langs[1])
                /\ \A j \in (Len(committed.targets) + 1)..Len(committed'.targets) :
                      /\ committed'.targets[j].lang \in NormalCodes
                      /\ SameCode(committed'.targets[j].lang, langs[2])
       /\ last'.op = "translate_unit" => Range(last'.rows) = SameCodePairs]_vars

\* a query under ("en", "pt-br") has found a pair, which was inserted under ("EN", "pt_BR")
C28_Witness ==
    /\ IsQuery
    /\ last.args.source_langs = Str("en") /\ last.args.target_langs = Str("pt-br")
    /\ last.rows # <<>>

-----------------------------------------------------------------------------
\* C29: in the committed tables and in those of every open transaction, the
\* length of every source row is the number of characters of its text
C29_LengthIsTextLength ==
    \A db \in Dbs : \A i \in 1..Len(db.sources) : db.sources[i].length = Len(db.sources[i].text)

\* a committed source row, and one more in an open transaction
C29_Witness ==
    /\ committed.sources # <<>>
    /\ \E db \in Dbs : Len(db.sources) > Len(committed.sources)

-----------------------------------------------------------------------------
\* the target rows of db that reference source row i
TargetsOf(db, i) == {j \in 1..Len(db.targets) : db.targets[j].sid = db.sources[i].sid}

\* C30: in the committed tables and in those of every open transaction, the
\* sid of every target row is the sid of a source row
C30_TargetsHaveSource ==
    \A db \in Dbs : \A j \in 1..Len(db.targets) : \E i \in 1..Len(db.sources) : j \in TargetsOf(db, i)

\* one committed source row with a target of another text and a target of
\* another language, after a call that raised
C30_Witness ==
    /\ last.exc # "ok"
    /\ \E i \in 1..Len(committed.sources) :
          \E j, k \in TargetsOf(committed, i) :
             /\ committed.targets[j].text # committed.targets[k].text
             /\ \E l \in TargetsOf(committed, i) : committed.targets[l].lang # committed.targets[j].lang

-----------------------------------------------------------------------------
\* C32: an add_dict with commit=True through one instance ends the transaction
\* of its thread on the file, whichever instance of the thread began it: after
\* the call no instance constructed by the thread has rows pending, they are
\* committed if the call returned and discarded if it raised
C32_TransactionPerThread ==
    [][\A o \in objs, unit \in CtorDicts :
          AddDict(Key(o.dict, o.by), unit, "en", "fr", TRUE) =>
             \A p \in objs :
                p.by = o.by =>
                   /\ tm_db'[Key(p.dict, p.by)].txn # "write"
                   /\ last'.exc = "ok" =>
                         Len(committed'.sources) >= Len(View(World, Key(p.dict, p.by)).sources)]_vars

-----------------------------------------------------------------------------
\* C31: translate_unit returns a list of results, whatever the min_similarity
\* of the instance in 0..100
C31_ReturnsForEverySimilarity == IsQuery => last.exc = "ok"

-----------------------------------------------------------------------------
\* the step leaves the file and every connection as they are, but for a new
\* connection of thread t without a transaction
ReadOnly(t) ==
    /\ committed' = committed
    /\ \A k \in DOMAIN tm_db : k \in DOMAIN tm_db' /\ tm_db'[k] = tm_db[k]
    /\ \A k \in DOMAIN tm_db' : k \in DOMAIN tm_db \/ (k = t /\ tm_db'[k] = NewConn)

\* C33: a translate_unit and a preload_db leave the sources, the targets and
\* the fulltext index of the file and the pending transaction of every thread
\* unchanged; at most the calling thread gets its connection
C33_ReadsChangeNothing ==
    [][\A t \in Threads :
          /\ PreloadDb(t) => ReadOnly(t)
          /\ \A s \in ReadQueries, sl \in LexSourceLangs, tl \in LexTargetLangs :
                TranslateUnit(t, s, sl, tl) => ReadOnly(t)]_vars

\* preload_db has counted the rows of the pending transaction of its thread,
\* of which the other thread has seen none
C33_Witness ==
    /\ last.op = "preload_db" /\ last.count > 0
    /\ tm_db[last.t].txn = "write"
    /\ committed.sources = <<>>
    /\ DOMAIN tm_db = Threads

====
